---- MODULE Spec2Model ----
(***************************************************************************)
(* SimpleOutputWriter (Source/SGDLib/SimpleOutputWriter.h): resolution of  *)
(* the output and input nodes of a computation network, the test-mode      *)
(* instrumentation of the network, the reader-driven WriteOutput loops and *)
(* the text formatter WriteMatrix.                                         *)
(***************************************************************************)
EXTENDS Integers, Sequences, FiniteSets, TLC

(***************************************************************************)
(* Bounds of the model.                                                    *)
(***************************************************************************)
\* longest list of requested output node names
MaxNames == 2
\* most minibatches the data reader delivers before it signals the end
MaxBatches == 2
\* most sequences of one minibatch
MaxSeqs == 2
\* most elements of a matrix handed to WriteMatrix
MaxElems == 4

(***************************************************************************)
(* The computation network m_net.  A node is identified by its address,    *)
(* modelled as a positive integer.  The network below has two input nodes, *)
(* two learnable parameters and five operation nodes; x is consumed by     *)
(* three nodes and twice by o3, and p is a node nothing reaches an input   *)
(* from.                                                                   *)
(***************************************************************************)
BaseNodes == 1..9

NodeKind ==
    [n \in BaseNodes |->
        CASE n \in {1, 2} -> "input"
          [] n \in {3, 4} -> "parameter"
          [] OTHER        -> "op"]

BaseName ==
    [n \in BaseNodes |->
        CASE n = 1 -> "x"  [] n = 2 -> "y"  [] n = 3 -> "W"  [] n = 4 -> "b"
          [] n = 5 -> "h"  [] n = 6 -> "o1" [] n = 7 -> "o2" [] n = 8 -> "o3"
          [] OTHER -> "p"]

\* the inputs of every node, in slot order
BaseInputs ==
    [n \in BaseNodes |->
        CASE n = 5 -> <<3, 1>>      \* h  = Times(W, x)
          [] n = 6 -> <<5, 4>>      \* o1 = Plus(h, b)
          [] n = 7 -> <<2, 5>>      \* o2 = CrossEntropy(y, h)
          [] n = 8 -> <<1, 1>>      \* o3 = ElementTimes(x, x)
          [] n = 9 -> <<4, 4>>      \* p  = Plus(b, b)
          [] OTHER -> <<>>]

\* the lists m_net->OutputNodes() can hold
DefaultOutputChoices == {<<>>, <<6>>, <<6, 7>>, <<8, 9, 7>>}

\* the names a caller may ask for; "zz" names no node
RequestNames == {"o1", "o2", "o3", "zz"}

RECURSIVE SeqsUpTo(_, _)
SeqsUpTo(S, n) ==
    IF n = 0 THEN {<<>>}
    ELSE LET shorter == SeqsUpTo(S, n - 1)
         IN  shorter \cup {Append(q, e) : q \in {r \in shorter : Len(r) = n - 1}, e \in S}

Range(q) == {q[i] : i \in 1..Len(q)}

NoDuplicates(q) == \A i, j \in 1..Len(q) : i # j => q[i] # q[j]

\* ComputationNetwork::GetNodeFromName: the node of that name, 0 when there is none
\* (the network then throws)
GetNodeFromName(name) ==
    IF \E n \in BaseNodes : BaseName[n] = name
    THEN CHOOSE n \in BaseNodes : BaseName[n] = name
    ELSE 0

\* the nodes reachable from n along input edges, n included
RECURSIVE Upstream(_, _, _)
Upstream(edges, frontier, seen) ==
    IF frontier \subseteq seen THEN seen
    ELSE LET now == seen \cup frontier
         IN  Upstream(edges, UNION {Range(edges[m]) : m \in frontier} \ now, now)

\* ComputationNetwork::InputNodes(rootNode): the input nodes rootNode depends on
InputNodes(edges, root) ==
    {n \in Upstream(edges, {root}, {}) : n \in BaseNodes /\ NodeKind[n] = "input"}

\* ComputationNetwork::LearnableParameterNodes(rootNode)
LearnableParameterNodes(edges, root) ==
    {n \in Upstream(edges, {root}, {}) : n \in BaseNodes /\ NodeKind[n] = "parameter"}

\* a set of nodes in increasing address order, as iterating a std::set yields it
RECURSIVE SetToSortedSeq(_)
SetToSortedSeq(S) ==
    IF S = {} THEN <<>>
    ELSE LET m == CHOOSE x \in S : \A y \in S : x <= y
         IN  <<m>> \o SetToSortedSeq(S \ {m})

(***************************************************************************)
(* DetermineOutputNodes and DetermineInputNodes.                           *)
(***************************************************************************)
\* a name that names no node is passed over
RECURSIVE LookupAllSkipping(_)
LookupAllSkipping(names) ==
    IF names = <<>> THEN [err |-> "none", nodes |-> <<>>]
    ELSE LET n    == GetNodeFromName(names[1])
             rest == LookupAllSkipping(Tail(names))
         IN  IF n = 0 THEN rest
             ELSE [err |-> "none", nodes |-> <<n>> \o rest.nodes]

RECURSIVE LookupAll(_)
LookupAll(names) ==
    IF names = <<>> THEN [err |-> "none", nodes |-> <<>>]
    ELSE LET n    == GetNodeFromName(names[1])
             rest == LookupAll(Tail(names))
         IN  IF n = 0 THEN [err |-> "NotFound", nodes |-> <<>>]
             ELSE IF rest.err # "none" THEN rest
             ELSE [err |-> "none", nodes |-> <<n>> \o rest.nodes]

\* the defaults are taken without looking whether there are any
DetermineOutputNodesUnchecked(names, dflt) ==
    IF Len(names) = 0 THEN [err |-> "none", nodes |-> dflt] ELSE LookupAll(names)

DetermineOutputNodes(names, dflt) ==
    IF Len(names) = 0
    THEN IF Len(dflt) = 0 THEN [err |-> "LogicError", nodes |-> <<>>]
         ELSE [err |-> "none", nodes |-> dflt]
    ELSE LookupAll(names)

\* the input nodes are appended output by output, without the std::set
RECURSIVE DetermineInputNodesAppended(_, _)
DetermineInputNodesAppended(edges, outs) ==
    IF outs = <<>> THEN <<>>
    ELSE SetToSortedSeq(InputNodes(edges, outs[1]))
            \o DetermineInputNodesAppended(edges, Tail(outs))

DetermineInputNodes(edges, outputNodes) ==
    SetToSortedSeq(UNION {InputNodes(edges, outputNodes[i]) : i \in 1..Len(outputNodes)})

(***************************************************************************)
(* State.                                                                  *)
(*                                                                         *)
(* rvars: one resolution of output and input nodes (DetermineOutputNodes   *)
(* followed by DetermineInputNodes for two nodes, singly and together).    *)
(***************************************************************************)
VARIABLES
    rpc,          \* "start", "resolved", "closed"
    rNames,       \* outputNodeNames
    rDefaults,    \* m_net->OutputNodes()
    rOut,         \* what DetermineOutputNodes returned
    rPair,        \* two nodes A, B of the network
    rClo          \* DetermineInputNodes of <<A>>, <<B>> and <<A, B>>

rvars == <<rpc, rNames, rDefaults, rOut, rPair, rClo>>

(***************************************************************************)
(* wvars: one call of a reader-driven WriteOutput, either the overload     *)
(* that writes through an IDataWriter or the one that writes formatted     *)
(* text files under a path.                                                *)
(***************************************************************************)
VARIABLES
    pc,                         \* where the call is
    err,                        \* the exception that ended it, "none" when there is none
    args,                       \* the arguments of the call; numParallel is what the reader had
    netMode,                    \* m_net->Environment().m_networkOperationMode
    netEdges,                   \* the inputs of every node of m_net, in slot order
    netDefaults,                \* m_net->OutputNodes()
    modeGuard,                  \* the mode modeGuard restores when it is destructed
    entryMode,                  \* history: netMode when the call began
    outputNodes,
    inputNodes,
    gradientNodes,
    noGradient,                 \* the gradient nodes whose gradient matrix is null
    warned,                     \* Warning() was called
    outputStreams,              \* node -> what its File was given, in order
    outputStreamsForGradients,
    reader,                     \* the IDataReader
    numMBsRun,
    cursor,                     \* position of the running for loop
    nSeqs,                      \* number of sequences of the minibatch in the network
    log,                        \* history: what was done for the current minibatch, in order
    saved                       \* number of IDataWriter::SaveData calls

wvars == <<pc, err, args, netMode, netEdges, netDefaults, modeGuard, entryMode,
           outputNodes, inputNodes, gradientNodes, noGradient, warned,
           outputStreams, outputStreamsForGradients, reader, numMBsRun, cursor,
           nSeqs, log, saved>>

(***************************************************************************)
(* mvars: one call of WriteMatrix on a matrix, followed by a second call   *)
(* with the same arguments.                                                *)
(***************************************************************************)
VARIABLES
    mpc,            \* "call", "loop", "done", "failed", "crashed"
    mIn,            \* the arguments of the call
    outputValues,   \* the matrix the caller holds
    tempArray,      \* the copy, by offset from its first element
    mDeletes,       \* number of delete[] tempArray so far in this call
    mS,             \* s
    mOut,           \* what this call wrote to f
    mTouched,       \* history: the offsets from tempArray this call used
    mRun,           \* 1 for the first call, 2 for the second
    mFirst          \* history: what the first call wrote

mvars == <<mpc, mIn, outputValues, tempArray, mDeletes, mS, mOut, mTouched, mRun, mFirst>>

NoResult == [err |-> "none", nodes |-> <<>>]
NoClosure == [a |-> <<>>, b |-> <<>>, ab |-> <<>>]

RInit ==
    /\ rpc = "start"
    /\ rNames \in SeqsUpTo(RequestNames, MaxNames)
    /\ rDefaults \in DefaultOutputChoices
    /\ rPair \in BaseNodes \X BaseNodes
    /\ rOut = NoResult
    /\ rClo = NoClosure

RIdle ==
    /\ rpc = "off"
    /\ rNames = <<>>
    /\ rDefaults = <<>>
    /\ rPair = <<1, 1>>
    /\ rOut = NoResult
    /\ rClo = NoClosure

ResolveOutputs ==
    /\ rpc = "start"
    /\ rOut' = DetermineOutputNodes(rNames, rDefaults)
    /\ rpc' = "resolved"
    /\ UNCHANGED <<wvars, mvars,rNames, rDefaults, rPair, rClo>>

ResolveInputs ==
    /\ rpc = "resolved"
    /\ rClo' = [a  |-> DetermineInputNodes(BaseInputs, <<rPair[1]>>),
                b  |-> DetermineInputNodes(BaseInputs, <<rPair[2]>>),
                ab |-> DetermineInputNodes(BaseInputs, rPair)]
    /\ rpc' = "closed"
    /\ UNCHANGED <<wvars, mvars,rNames, rDefaults, rPair, rOut>>

RNext == ResolveOutputs \/ ResolveInputs

\* NetworkOperationMode
Modes == {"unspecified", "training", "inferring"}

NewReader(par) == [started |-> FALSE, numParallel |-> par, pulls |-> 0,
                   dataEnds |-> 0, exhausted |-> FALSE]

\* the names asked for in a whole call
CallNames == {"o1", "o2", "zz"}
CallDefaults == {<<>>, <<6>>, <<6, 7>>}

WInit ==
    /\ pc = "idle"
    /\ err = "none"
    /\ \E names \in SeqsUpTo(CallNames, MaxNames), sepEmpty \in BOOLEAN :
          \/ \E test \in BOOLEAN :
                /\ args = [overload |-> "file", outputNodeNames |-> names,
                           nodeUnitTest |-> test, supportMulti |-> TRUE,
                           sepEmpty |-> sepEmpty, numParallel |-> 1]
                /\ reader = NewReader(1)
          \/ /\ sepEmpty = FALSE
             /\ \E multi \in BOOLEAN, par \in {1, 2} :
                /\ args = [overload |-> "writer", outputNodeNames |-> names,
                           nodeUnitTest |-> FALSE, supportMulti |-> multi,
                           sepEmpty |-> FALSE, numParallel |-> par]
                /\ reader = NewReader(par)
    /\ netMode \in Modes
    /\ entryMode = netMode
    /\ modeGuard = "none"
    /\ netEdges = BaseInputs
    /\ netDefaults \in CallDefaults
    /\ (args.outputNodeNames # <<>> => netDefaults = <<6>>)  \* read for no names only
    /\ outputNodes = <<>>
    /\ inputNodes = <<>>
    /\ gradientNodes = <<>>
    /\ noGradient = {}
    /\ warned = FALSE
    /\ outputStreams = <<>>
    /\ outputStreamsForGradients = <<>>
    /\ numMBsRun = 0
    /\ cursor = 0
    /\ nSeqs = 0
    /\ log = <<>>
    /\ saved = 0

(***************************************************************************)
(* ScopedNetworkOperationMode (ComputationNetwork.h): the constructor      *)
(* keeps the network's mode and sets the new one, the destructor puts the  *)
(* kept one back.                                                          *)
(***************************************************************************)
ScopedModeCtor(mode, newMode) == [saved |-> mode, mode |-> newMode]
ScopedModeDtor(savedMode) == savedMode

\* the declaration of modeGuard without a guard: the mode is set, nothing is kept
WriteOutputEnterUnguarded(mode) == [saved |-> "inferring", mode |-> "inferring"]

\* ScopedNetworkOperationMode modeGuard(m_net, NetworkOperationMode::inferring);
WriteOutputEnter(mode) == ScopedModeCtor(mode, "inferring")

\* leaving the scope of modeGuard, by return or by an exception
Unwind == netMode' = ScopedModeDtor(modeGuard)

(***************************************************************************)
(* Files.  A stream is what the File of a node was given, in order; the    *)
(* fragments of the formatting options are written as they are, a whole    *)
(* sequence (its prologue, values and epilogue) is "seq".                  *)
(***************************************************************************)
NewStream(n) == [data |-> <<>>, opens |-> n]

Put(stream, tokens) == [stream EXCEPT !.data = @ \o tokens]

Count(q, token) == Cardinality({i \in 1..Len(q) : q[i] = token})

\* fprintfOrDie(f, "%s", sequenceSeparator.c_str())
Separator(sepEmpty) == IF sepEmpty THEN <<>> ELSE <<"sep">>

\* ComputationNode::WriteMinibatchWithFormatting (ComputationNode.h): the sequences
\* of the minibatch, the separator before all of them but the first
RECURSIVE WriteMinibatchWithFormatting(_, _)
WriteMinibatchWithFormatting(n, sepEmpty) ==
    IF n = 0 THEN <<>>
    ELSE WriteMinibatchWithFormatting(n - 1, sepEmpty)
            \o (IF n > 1 THEN Separator(sepEmpty) ELSE <<>>) \o <<"seq">>

EmitsSeparatorPerBatch(mbs, s, sepEmpty) == s > 0 /\ ~sepEmpty

\* WriteMatrix: if ((numMBsRun > 0 || s > 0) && !sequenceSeparator.empty())
EmitsSeparator(mbs, s, sepEmpty) == (mbs > 0 \/ s > 0) /\ ~sepEmpty

\* WriteMatrix: what the sequences 0 .. n-1 of a matrix put on the file
RECURSIVE WriteMatrixTokens(_, _, _)
WriteMatrixTokens(mbs, n, sepEmpty) ==
    IF n = 0 THEN <<>>
    ELSE WriteMatrixTokens(mbs, n - 1, sepEmpty)
            \o (IF EmitsSeparator(mbs, n - 1, sepEmpty) THEN <<"sep">> ELSE <<>>)
            \o <<"seq">>

(***************************************************************************)
(* InsertNode and the instrumentation of the network for the unit test.   *)
(***************************************************************************)
\* only the first slot that holds parent is redirected
InsertNodeFirstSlot(edges, allNodes, parent, newNode) ==
    [n \in DOMAIN edges |->
        IF n = newNode THEN <<parent>>
        ELSE IF n \in allNodes
        THEN [i \in 1..Len(edges[n]) |->
                IF edges[n][i] = parent /\ \A k \in 1..(i - 1) : edges[n][k] # parent
                THEN newNode ELSE edges[n][i]]
        ELSE edges[n]]

InsertNode(edges, allNodes, parent, newNode) ==
    [n \in DOMAIN edges |->
        IF n = newNode THEN <<parent>>
        ELSE IF n \in allNodes
        THEN [i \in 1..Len(edges[n]) |->
                IF edges[n][i] = parent THEN newNode ELSE edges[n][i]]
        ELSE edges[n]]

\* the node builder.Identity(parent, name) adds to the network
NewNodeId(edges) == Cardinality(DOMAIN edges) + 1

\* for (auto inputNode : allInputs) { ... InsertNode(allNodes, parent, newNode); ... }
RECURSIVE InstrumentAll(_, _, _)
InstrumentAll(edges, allNodes, allInputs) ==
    IF allInputs = <<>> THEN [edges |-> edges, gradientNodes |-> <<>>]
    ELSE LET parent  == allInputs[1]
             newNode == NewNodeId(edges)
             built   == (newNode :> <<parent>>) @@ edges
             rest    == InstrumentAll(InsertNode(built, allNodes, parent, newNode),
                                      allNodes, Tail(allInputs))
         IN  [edges |-> rest.edges, gradientNodes |-> <<newNode>> \o rest.gradientNodes]

\* auto allInputs = inputNodes; allInputs.insert(end, allParameters ...)
AllInputs(edges, ins, outs) ==
    ins \o SetToSortedSeq(LearnableParameterNodes(edges, outs[1]))

(***************************************************************************)
(* The call, step by step.                                                 *)
(***************************************************************************)
IsFile == args.overload = "file"
IsTest == args.nodeUnitTest

\* the keys of a std::map<ComputationNodeBasePtr, ...> in iteration order
Keys(streams) == SetToSortedSeq(DOMAIN streams)

\* the sequences of the layout of a gradient node: that of the minibatch for the
\* identity of an input, one frame (no MBLayout) for the identity of a parameter
GradientSeqs(g) ==
    IF NodeKind[netEdges[g][1]] = "input" THEN nSeqs ELSE 1

\* WriteOutput is entered: modeGuard is constructed
Enter ==
    /\ pc = "idle"
    /\ LET g == WriteOutputEnter(netMode)
       IN  /\ modeGuard' = g.saved
           /\ netMode' = g.mode
    /\ pc' = "resolve"
    /\ UNCHANGED <<rvars, mvars,err, args, netEdges, netDefaults, entryMode, outputNodes, inputNodes,
                   gradientNodes, noGradient, warned, outputStreams,
                   outputStreamsForGradients, reader, numMBsRun, cursor, nSeqs, log,
                   saved>>

\* outputNodes = DetermineOutputNodes(...); inputNodes = DetermineInputNodes(...)
Resolve ==
    /\ pc = "resolve"
    /\ LET r == DetermineOutputNodes(args.outputNodeNames, netDefaults)
       IN  IF r.err # "none"
           THEN /\ err' = r.err
                /\ pc' = "failed"
                /\ Unwind
                /\ UNCHANGED <<outputNodes, inputNodes>>
           ELSE /\ outputNodes' = r.nodes
                /\ inputNodes' = DetermineInputNodes(netEdges, r.nodes)
                /\ pc' = IF IsFile THEN "setup" ELSE "wstart"
                /\ UNCHANGED <<err, netMode>>
    /\ UNCHANGED <<rvars, mvars,args, netEdges, netDefaults, modeGuard, entryMode, gradientNodes,
                   noGradient, warned, outputStreams, outputStreamsForGradients, reader,
                   numMBsRun, cursor, nSeqs, log, saved>>

\* if (nodeUnitTest) { warning or RuntimeError; m_networkOperationMode = training;
UnitTestMode ==
    /\ pc = "setup"
    /\ IsTest
    /\ IF Len(outputNodes) = 0
       THEN /\ err' = "RuntimeError"
            /\ pc' = "failed"
            /\ Unwind
            /\ UNCHANGED warned
       ELSE /\ warned' = (Len(outputNodes) > 1)
            /\ netMode' = "training"
            /\ pc' = "instrument"
            /\ UNCHANGED err
    /\ UNCHANGED <<rvars, mvars,args, netEdges, netDefaults, modeGuard, entryMode, outputNodes,
                   inputNodes, gradientNodes, noGradient, outputStreams,
                   outputStreamsForGradients, reader, numMBsRun, cursor, nSeqs, log,
                   saved>>

\* ... the identity nodes are built and inserted; CompileNetwork; AllocateAllMatrices }
Instrument ==
    /\ pc = "instrument"
    /\ LET r == InstrumentAll(netEdges, DOMAIN netEdges,
                              AllInputs(netEdges, inputNodes, outputNodes))
       IN  /\ netEdges' = r.edges
           /\ gradientNodes' = r.gradientNodes
           /\ noGradient' \in SUBSET Range(r.gradientNodes)
    /\ pc' = "open"
    /\ UNCHANGED <<rvars, mvars,err, args, netMode, netDefaults, modeGuard, entryMode, outputNodes,
                   inputNodes, warned, outputStreams, outputStreamsForGradients, reader,
                   numMBsRun, cursor, nSeqs, log, saved>>

\* else m_net->AllocateAllMatrices({}, outputNodes, nullptr);
NoUnitTest ==
    /\ pc = "setup"
    /\ ~IsTest
    /\ pc' = "open"
    /\ UNCHANGED <<rvars, mvars,err, args, netMode, netEdges, netDefaults, modeGuard, entryMode,
                   outputNodes, inputNodes, gradientNodes, noGradient, warned,
                   outputStreams, outputStreamsForGradients, reader, numMBsRun, cursor,
                   nSeqs, log, saved>>

\* the files are opened: one per element of outputNodes, kept by node, and in the
\* unit test one per gradient node
OpenStreams ==
    /\ pc = "open"
    /\ outputStreams' =
          [n \in Range(outputNodes) |->
              NewStream(Cardinality({i \in 1..Len(outputNodes) : outputNodes[i] = n}))]
    /\ outputStreamsForGradients' =
          IF IsTest THEN [g \in Range(gradientNodes) |-> NewStream(1)] ELSE <<>>
    /\ pc' = "start"
    /\ UNCHANGED <<rvars, mvars,err, args, netMode, netEdges, netDefaults, modeGuard, entryMode,
                   outputNodes, inputNodes, gradientNodes, noGradient, warned, reader,
                   numMBsRun, cursor, nSeqs, log, saved>>

\* for (auto & onode : outputNodes) fprintfOrDie(*outputStreams[onode], prologue)
RECURSIVE WritePrologues(_, _)
WritePrologues(streams, nodes) ==
    IF nodes = <<>> THEN streams
    ELSE WritePrologues([streams EXCEPT ![nodes[1]] = Put(@, <<"prologue">>)],
                        Tail(nodes))

\* StartMinibatchLoop, StartEvaluateMinibatchLoop, numMBsRun = 0, the prologues
StartLoop ==
    /\ pc = "start"
    /\ reader' = [reader EXCEPT !.started = TRUE]
    /\ numMBsRun' = 0
    /\ outputStreams' = WritePrologues(outputStreams, outputNodes)
    /\ pc' = "pull"
    /\ UNCHANGED <<rvars, mvars,err, args, netMode, netEdges, netDefaults, modeGuard, entryMode,
                   outputNodes, inputNodes, gradientNodes, noGradient, warned,
                   outputStreamsForGradients, cursor, nSeqs, log, saved>>

\* the loop is started and the reader left as it is, whatever the writer supports
StartLoopWriterAsIs ==
    /\ pc = "wstart"
    /\ reader' = [reader EXCEPT !.started = TRUE]
    /\ pc' = "pull"
    /\ UNCHANGED <<rvars, mvars, err, args, netMode, netEdges, netDefaults, modeGuard,
                   entryMode, outputNodes, inputNodes, gradientNodes, noGradient, warned,
                   outputStreams, outputStreamsForGradients, numMBsRun, cursor, nSeqs,
                   log, saved>>

\* the IDataWriter overload: StartMinibatchLoop; SetNumParallelSequences(1) unless
\* the writer supports multiple utterances
StartLoopWriter ==
    /\ pc = "wstart"
    /\ reader' = [reader EXCEPT !.started = TRUE,
                                !.numParallel = IF args.supportMulti THEN @ ELSE 1]
    /\ pc' = "pull"
    /\ UNCHANGED <<rvars, mvars,err, args, netMode, netEdges, netDefaults, modeGuard, entryMode,
                   outputNodes, inputNodes, gradientNodes, noGradient, warned,
                   outputStreams, outputStreamsForGradients, numMBsRun, cursor, nSeqs,
                   log, saved>>

\* while (GetMinibatchIntoNetwork(...)) { BumpEvalTimeStamp(inputNodes);
GetMinibatch ==
    /\ pc = "pull"
    /\ reader.pulls < MaxBatches
    /\ \E n \in 1..MaxSeqs : nSeqs' = n
    /\ reader' = [reader EXCEPT !.pulls = @ + 1]
    /\ log' = <<<<"bump">>>>
    /\ cursor' = 1
    /\ pc' = IF IsFile THEN "eval" ELSE "weval"
    /\ UNCHANGED <<rvars, mvars,err, args, netMode, netEdges, netDefaults, modeGuard, entryMode,
                   outputNodes, inputNodes, gradientNodes, noGradient, warned,
                   outputStreams, outputStreamsForGradients, numMBsRun, saved>>

\* the end of the data is noted but the loop is not left
EndOfDataStaysInLoop ==
    /\ pc = "pull"
    /\ ~reader.exhausted
    /\ reader' = [reader EXCEPT !.exhausted = TRUE]
    /\ pc' = "pull"
    /\ UNCHANGED <<rvars, mvars, err, args, netMode, netEdges, netDefaults, modeGuard,
                   entryMode, outputNodes, inputNodes, gradientNodes, noGradient, warned,
                   outputStreams, outputStreamsForGradients, numMBsRun, cursor, nSeqs,
                   log, saved>>

\* GetMinibatchIntoNetwork returns false: the loop is left
EndOfData ==
    /\ pc = "pull"
    /\ reader' = [reader EXCEPT !.exhausted = TRUE]
    /\ pc' = IF IsFile THEN "epilogue" ELSE "return"
    /\ UNCHANGED <<rvars, mvars,err, args, netMode, netEdges, netDefaults, modeGuard, entryMode,
                   outputNodes, inputNodes, gradientNodes, noGradient, warned,
                   outputStreams, outputStreamsForGradients, numMBsRun, cursor, nSeqs,
                   log, saved>>

\* Backprop(onode) before the value of onode is written
EvalOutputBackpropFirst ==
    /\ pc = "eval"
    /\ cursor <= Len(outputNodes)
    /\ LET onode == outputNodes[cursor]
       IN  /\ outputStreams' =
                [outputStreams EXCEPT ![onode] =
                    Put(@, (IF numMBsRun > 0 THEN Separator(args.sepEmpty) ELSE <<>>)
                           \o WriteMinibatchWithFormatting(nSeqs, args.sepEmpty))]
           /\ log' = log \o <<<<"forward", onode>>>>
                         \o (IF IsTest THEN <<<<"backward", onode>>>> ELSE <<>>)
                         \o <<<<"write", onode>>>>
    /\ IF cursor < Len(outputNodes)
       THEN /\ cursor' = cursor + 1
            /\ pc' = "eval"
       ELSE /\ cursor' = 1
            /\ pc' = IF IsTest /\ DOMAIN outputStreamsForGradients # {}
                     THEN "grads" ELSE "endBatch"
    /\ UNCHANGED <<rvars, mvars,err, args, netMode, netEdges, netDefaults, modeGuard, entryMode,
                   outputNodes, inputNodes, gradientNodes, noGradient, warned,
                   outputStreamsForGradients, reader, numMBsRun, nSeqs, saved>>

\* one round of: for (auto & onode : outputNodes) { ForwardProp(onode); the separator
\* if (numMBsRun > 0); WriteMinibatchWithFormatting; if (nodeUnitTest) Backprop(onode); }
EvalOutput ==
    /\ pc = "eval"
    /\ cursor <= Len(outputNodes)
    /\ LET onode == outputNodes[cursor]
       IN  /\ outputStreams' =
                [outputStreams EXCEPT ![onode] =
                    Put(@, (IF numMBsRun > 0 THEN Separator(args.sepEmpty) ELSE <<>>)
                           \o WriteMinibatchWithFormatting(nSeqs, args.sepEmpty))]
           /\ log' = log \o <<<<"forward", onode>>, <<"write", onode>>>>
                         \o (IF IsTest THEN <<<<"backward", onode>>>> ELSE <<>>)
    /\ IF cursor < Len(outputNodes)
       THEN /\ cursor' = cursor + 1
            /\ pc' = "eval"
       ELSE /\ cursor' = 1
            /\ pc' = IF IsTest /\ DOMAIN outputStreamsForGradients # {}
                     THEN "grads" ELSE "endBatch"
    /\ UNCHANGED <<rvars, mvars,err, args, netMode, netEdges, netDefaults, modeGuard, entryMode,
                   outputNodes, inputNodes, gradientNodes, noGradient, warned,
                   outputStreamsForGradients, reader, numMBsRun, nSeqs, saved>>

GradientLoopNext ==
    IF cursor < Len(Keys(outputStreamsForGradients))
    THEN /\ cursor' = cursor + 1
         /\ pc' = "grads"
    ELSE /\ cursor' = 1
         /\ pc' = "endBatch"

\* one round of: for (auto & inodeFile : outputStreamsForGradients) with a gradient:
\* WriteMatrix(*file, gradient, ..., numMBsRun).  WriteMatrix deletes tempArray at the
\* end of the round of its first sequence, so a second sequence reads freed memory and
\* deletes it again: the call either goes on with whatever it reads or the process dies.
WriteGradient ==
    /\ pc = "grads"
    /\ LET inode == Keys(outputStreamsForGradients)[cursor]
           n     == GradientSeqs(inode)
       IN  /\ inode \notin noGradient
           /\ \/ /\ outputStreamsForGradients' =
                       [outputStreamsForGradients EXCEPT ![inode] =
                           Put(@, WriteMatrixTokens(numMBsRun, n, args.sepEmpty))]
                 /\ log' = Append(log, <<"gradient", inode>>)
                 /\ GradientLoopNext
                 /\ UNCHANGED err
              \/ /\ n >= 2
                 /\ outputStreamsForGradients' =
                       [outputStreamsForGradients EXCEPT ![inode] =
                           Put(@, WriteMatrixTokens(numMBsRun, 1, args.sepEmpty))]
                 /\ log' = Append(log, <<"gradient", inode>>)
                 /\ err' = "crash"
                 /\ pc' = "crashed"
                 /\ UNCHANGED cursor
    /\ UNCHANGED <<rvars, mvars,args, netMode, netEdges, netDefaults, modeGuard, entryMode,
                   outputNodes, inputNodes, gradientNodes, noGradient, warned,
                   outputStreams, reader, numMBsRun, nSeqs, saved>>

\* the same round for a node whose gradient matrix is null: Gradient() dereferences the
\* null pointer and the address of the result is compared with nullptr, so either the
\* warning is printed and the node skipped, or the process dies
SkipGradient ==
    /\ pc = "grads"
    /\ Keys(outputStreamsForGradients)[cursor] \in noGradient
    /\ \/ /\ log' = Append(log, <<"warning", Keys(outputStreamsForGradients)[cursor]>>)
          /\ GradientLoopNext
          /\ UNCHANGED err
       \/ /\ err' = "crash"
          /\ pc' = "crashed"
          /\ UNCHANGED <<cursor, log>>
    /\ UNCHANGED <<rvars, mvars,args, netMode, netEdges, netDefaults, modeGuard, entryMode,
                   outputNodes, inputNodes, gradientNodes, noGradient, warned,
                   outputStreams, outputStreamsForGradients, reader, numMBsRun, nSeqs,
                   saved>>

\* the output nodes are evaluated last to first
RECURSIVE ForwardAllReversed(_)
ForwardAllReversed(nodes) ==
    IF nodes = <<>> THEN <<>>
    ELSE ForwardAllReversed(Tail(nodes)) \o <<<<"forward", nodes[1]>>>>

\* the IDataWriter overload: for (i ...) { ForwardProp(outputNodes[i]); outputMatrices[...] = ... }
RECURSIVE ForwardAll(_)
ForwardAll(nodes) ==
    IF nodes = <<>> THEN <<>>
    ELSE <<<<"forward", nodes[1]>>>> \o ForwardAll(Tail(nodes))

EvalWriter ==
    /\ pc = "weval"
    /\ log' = log \o ForwardAll(outputNodes)
    /\ pc' = "wsave"
    /\ UNCHANGED <<rvars, mvars,err, args, netMode, netEdges, netDefaults, modeGuard, entryMode,
                   outputNodes, inputNodes, gradientNodes, noGradient, warned,
                   outputStreams, outputStreamsForGradients, reader, numMBsRun, cursor,
                   nSeqs, saved>>

\* dataWriter.SaveData(0, outputMatrices, actualMBSize, actualMBSize, 0)
SaveData ==
    /\ pc = "wsave"
    /\ saved' = saved + 1
    /\ log' = Append(log, <<"save">>)
    /\ pc' = "endBatch"
    /\ UNCHANGED <<rvars, mvars,err, args, netMode, netEdges, netDefaults, modeGuard, entryMode,
                   outputNodes, inputNodes, gradientNodes, noGradient, warned,
                   outputStreams, outputStreamsForGradients, reader, numMBsRun, cursor,
                   nSeqs>>

\* the minibatch is ended without dataReader.DataEnd()
EndBatchWithoutDataEnd ==
    /\ pc = "endBatch"
    /\ numMBsRun' = IF IsFile THEN numMBsRun + 1 ELSE numMBsRun
    /\ pc' = "pull"
    /\ UNCHANGED <<rvars, mvars, err, args, netMode, netEdges, netDefaults, modeGuard,
                   entryMode, outputNodes, inputNodes, gradientNodes, noGradient, warned,
                   outputStreams, outputStreamsForGradients, reader, cursor, nSeqs, log,
                   saved>>

\* ++numMBsRun (the file overload); dataReader.DataEnd(); }
EndBatch ==
    /\ pc = "endBatch"
    /\ numMBsRun' = IF IsFile THEN numMBsRun + 1 ELSE numMBsRun
    /\ reader' = [reader EXCEPT !.dataEnds = @ + 1]
    /\ log' = Append(log, <<"dataEnd">>)
    /\ pc' = "pull"
    /\ UNCHANGED <<rvars, mvars,err, args, netMode, netEdges, netDefaults, modeGuard, entryMode,
                   outputNodes, inputNodes, gradientNodes, noGradient, warned,
                   outputStreams, outputStreamsForGradients, cursor, nSeqs, saved>>

\* for (auto & stream : outputStreams) fprintfOrDie(f, epilogue)
Epilogue ==
    /\ pc = "epilogue"
    /\ outputStreams' = [n \in DOMAIN outputStreams |-> Put(outputStreams[n], <<"epilogue">>)]
    /\ pc' = "flush"
    /\ UNCHANGED <<rvars, mvars,err, args, netMode, netEdges, netDefaults, modeGuard, entryMode,
                   outputNodes, inputNodes, gradientNodes, noGradient, warned,
                   outputStreamsForGradients, reader, numMBsRun, cursor, nSeqs, log,
                   saved>>

\* only the files of the output nodes are flushed
FlushOutputsOnly ==
    /\ pc = "flush"
    /\ outputStreams' = [n \in DOMAIN outputStreams |-> Put(outputStreams[n], <<"flush">>)]
    /\ pc' = "return"
    /\ UNCHANGED <<rvars, mvars,err, args, netMode, netEdges, netDefaults, modeGuard, entryMode,
                   outputNodes, inputNodes, gradientNodes, noGradient, warned, reader,
                   numMBsRun, cursor, nSeqs, log, saved, outputStreamsForGradients>>

\* for (auto & iter : outputStreams) Flush(); for (auto & iter : outputStreamsForGradients) Flush();
Flush ==
    /\ pc = "flush"
    /\ outputStreams' = [n \in DOMAIN outputStreams |-> Put(outputStreams[n], <<"flush">>)]
    /\ outputStreamsForGradients' =
          [g \in DOMAIN outputStreamsForGradients |->
              Put(outputStreamsForGradients[g], <<"flush">>)]
    /\ pc' = "return"
    /\ UNCHANGED <<rvars, mvars,err, args, netMode, netEdges, netDefaults, modeGuard, entryMode,
                   outputNodes, inputNodes, gradientNodes, noGradient, warned, reader,
                   numMBsRun, cursor, nSeqs, log, saved>>

\* the end of WriteOutput: modeGuard is destructed
Return ==
    /\ pc = "return"
    /\ Unwind
    /\ pc' = "done"
    /\ UNCHANGED <<rvars, mvars,err, args, netEdges, netDefaults, modeGuard, entryMode, outputNodes,
                   inputNodes, gradientNodes, noGradient, warned, outputStreams,
                   outputStreamsForGradients, reader, numMBsRun, cursor, nSeqs, log,
                   saved>>

\* where a callee can throw: the network, the reader, the writer, File, fprintfOrDie
Throwing == {"resolve", "setup", "instrument", "open", "start", "wstart", "pull", "eval",
             "grads", "weval", "wsave", "endBatch", "epilogue", "flush"}

\* an exception leaves WriteOutput: modeGuard is destructed on the way
Throw ==
    /\ pc \in Throwing
    /\ err' = "fatal"
    /\ pc' = "failed"
    /\ Unwind
    /\ UNCHANGED <<rvars, mvars,args, netEdges, netDefaults, modeGuard, entryMode, outputNodes,
                   inputNodes, gradientNodes, noGradient, warned, outputStreams,
                   outputStreamsForGradients, reader, numMBsRun, cursor, nSeqs, log,
                   saved>>

WNext ==
    \/ Enter \/ Resolve \/ UnitTestMode \/ Instrument \/ NoUnitTest \/ OpenStreams
    \/ StartLoop \/ StartLoopWriter \/ GetMinibatch \/ EndOfData \/ EvalOutput
    \/ WriteGradient \/ SkipGradient \/ EvalWriter \/ SaveData \/ EndBatch
    \/ Epilogue \/ Flush \/ Return \/ Throw

\* no call of WriteOutput
WIdle ==
    /\ pc = "off"
    /\ err = "none"
    /\ args = [overload |-> "file", outputNodeNames |-> <<>>, nodeUnitTest |-> FALSE,
               supportMulti |-> TRUE, sepEmpty |-> FALSE, numParallel |-> 1]
    /\ reader = NewReader(1)
    /\ netMode = "inferring"
    /\ entryMode = "inferring"
    /\ modeGuard = "none"
    /\ netEdges = BaseInputs
    /\ netDefaults = <<>>
    /\ outputNodes = <<>>
    /\ inputNodes = <<>>
    /\ gradientNodes = <<>>
    /\ noGradient = {}
    /\ warned = FALSE
    /\ outputStreams = <<>>
    /\ outputStreamsForGradients = <<>>
    /\ numMBsRun = 0
    /\ cursor = 0
    /\ nSeqs = 0
    /\ log = <<>>
    /\ saved = 0

(***************************************************************************)
(* WriteMatrix.  The matrix outputValues has D rows and P * T columns and  *)
(* is stored column by column; its copy tempArray is addressed by offsets  *)
(* from its first element.  A call is followed by a second call with the   *)
(* same arguments.                                                         *)
(***************************************************************************)
\* the values an element of a matrix takes
Values == {0, 1}

Shapes ==
    {sh \in [D : 1..MaxElems, P : 1..MaxElems, T : 1..MaxElems] :
        sh.D * sh.P * sh.T <= MaxElems}

NumElements(sh) == sh.D * sh.P * sh.T

Matrices(sh) == [0..(NumElements(sh) - 1) -> Values]

\* one matrix of the shape, its columns differing
Ramp(sh) == [k \in 0..(NumElements(sh) - 1) |-> (k + (k \div sh.D)) % 2]

\* the extent of a sequence in a layout of T time steps: all of it, one that began
\* before the minibatch, one that ends after it, one that begins at the second step
Whole(T) == [tBegin |-> 0, tEnd |-> T]

SeqRanges(T) ==
    {Whole(T), [tBegin |-> -1, tEnd |-> T], [tBegin |-> 0, tEnd |-> T + 1]}
        \cup (IF T >= 2 THEN {[tBegin |-> 1, tEnd |-> T]} ELSE {})

\* the sequences of a layout overlap in time, so that each has a slot of its own
WholeLayouts(sh) ==
    {[i \in 1..n |-> Whole(sh.T)] : n \in 0..(IF sh.P < MaxSeqs THEN sh.P ELSE MaxSeqs)}

AllLayouts(sh) == {l \in SeqsUpTo(SeqRanges(sh.T), MaxSeqs) : Len(l) <= sh.P}

\* WriteFormattingOptions as WriteMatrix reads them, the label mapping that was
\* loaded (D + mapExtra entries) and numMBsRun
OptionChoices ==
    {o \in [isCategoryLabel : BOOLEAN, hasMapping : BOOLEAN, mapExtra : {-1, 0, 1},
            transpose : BOOLEAN, numMBsRun : {0, 1}, sepEmpty : BOOLEAN] :
        /\ o.mapExtra # 0 => (o.isCategoryLabel /\ o.hasMapping)
        /\ o.sepEmpty => o.numMBsRun = 1}

PlainOptions == {o \in OptionChoices : o.numMBsRun = 0}

\* every matrix with sequences that span the minibatch
ValueCalls ==
    UNION {{[sh |-> sh, values |-> m, hasLayout |-> TRUE, seqs |-> l, opt |-> o] :
                m \in Matrices(sh), l \in WholeLayouts(sh), o \in OptionChoices} :
           sh \in Shapes}

\* every layout with one matrix of each shape
LayoutCalls ==
    UNION {{[sh |-> sh, values |-> Ramp(sh), hasLayout |-> TRUE, seqs |-> l, opt |-> o] :
                l \in AllLayouts(sh), o \in PlainOptions} :
           sh \in Shapes}

\* every matrix of a node without MBLayout
NoLayoutCalls ==
    UNION {{[sh |-> sh, values |-> m, hasLayout |-> FALSE, seqs |-> <<>>, opt |-> o] :
                m \in Matrices(sh), o \in PlainOptions} :
           sh \in {s \in Shapes : s.P = 1}}

MatrixCalls == ValueCalls \cup LayoutCalls \cup NoLayoutCalls

\* the label format whenever a mapping file is named
FormatCharByMapping(o) ==
    IF o.hasMapping THEN "s" ELSE IF o.isCategoryLabel THEN "u" ELSE "f"

\* char formatChar = !isCategoryLabel ? 'f' : !labelMappingFile.empty() ? 's' : 'u';
FormatChar(o) ==
    IF ~o.isCategoryLabel THEN "f" ELSE IF o.hasMapping THEN "s" ELSE "u"

\* File::LoadLabelFile, when isCategoryLabel and labelMappingFile is set: entry i of
\* the vector is the label of category i - 1
LabelMapping(in) ==
    IF in.opt.isCategoryLabel /\ in.opt.hasMapping
    THEN [i \in 1..(in.sh.D + in.opt.mapExtra) |-> 100 + i]
    ELSE <<>>

\* if (!pMBLayout) { pMBLayout = make_shared<MBLayout>(); pMBLayout->InitAsFrameMode(1); }
Sequences(in) == IF in.hasLayout THEN in.seqs ELSE <<[tBegin |-> 0, tEnd |-> 1]>>
NumParallelSequences(in) == IF in.hasLayout THEN in.sh.P ELSE 1
NumTimeSteps(in) == IF in.hasLayout THEN in.sh.T ELSE 1

\* size_t colStride = pMBLayout->GetNumParallelSequences() * outputValues.GetNumRows();
ColStride(in) == NumParallelSequences(in) * in.sh.D

\* size_t tBegin = seqInfo.tBegin >= 0 ? seqInfo.tBegin : 0;
ClippedBegin(in, s) ==
    LET q == Sequences(in)[s + 1] IN IF q.tBegin >= 0 THEN q.tBegin ELSE 0

\* size_t tEnd = seqInfo.tEnd <= width ? seqInfo.tEnd : width;
ClippedEnd(in, s) ==
    LET q == Sequences(in)[s + 1]
    IN  IF q.tEnd <= NumTimeSteps(in) THEN q.tEnd ELSE NumTimeSteps(in)

\* size_t T = tEnd - tBegin;
SeqSteps(in, s) == ClippedEnd(in, s) - ClippedBegin(in, s)

\* ElemType* pCurValue = tempArray + s * outputValues.GetNumRows() + seqInfo.tBegin;
CurValue(in, s) == s * in.sh.D + Sequences(in)[s + 1].tBegin

InBuffer(in, k) == k \in 0..(NumElements(in.sh) - 1)

\* the offsets a call can form
Window(in) ==
    (-1)..(Len(Sequences(in)) * in.sh.D + 1 + in.sh.D
              + NumTimeSteps(in) * in.sh.D * ColStride(in))

\* what is read at every offset: the array while it is allocated; after delete[] what
\* it held (keep) or whatever is there (v); outside the array whatever is there.  What
\* a round writes to memory that is not the array's is read back (keep) or not.
Memory(in, arr, freed, keep, v) ==
    [k \in Window(in) |->
        IF InBuffer(in, k) /\ (~freed \/ keep) THEN arr[k] ELSE v]

\* for (i < dim) { val = pCurValue[i + ...]; if (maxPos < 0 || val >= maxVal) { maxPos = i; maxVal = val; } }
RECURSIVE ArgMaxScan(_, _, _, _, _, _)
ArgMaxScan(mem, at, dim, i, maxPos, maxVal) ==
    IF i = dim THEN maxPos
    ELSE LET val == mem[at + i]
         IN  IF maxPos < 0 \/ val >= maxVal
             THEN ArgMaxScan(mem, at, dim, i + 1, i, val)
             ELSE ArgMaxScan(mem, at, dim, i + 1, maxPos, maxVal)

\* where the scan of column j starts: pCurValue[i + j * dim * colStride]
ScanStart(in, s, j) == CurValue(in, s) + j * in.sh.D * ColStride(in)

\* where the index of column j is put: pCurValue[0 + j * colStride]
IndexCell(in, s, j) == CurValue(in, s) + j * ColStride(in)

\* for (j < T) { ... pCurValue[0 + j * colStride] = (ElemType)maxPos; }
RECURSIVE Collapse(_, _, _, _)
Collapse(in, s, mem, j) ==
    IF j = SeqSteps(in, s) THEN mem
    ELSE Collapse(in, s,
                  [mem EXCEPT ![IndexCell(in, s, j)] =
                      ArgMaxScan(mem, ScanStart(in, s, j), in.sh.D, 0, -1, 0)],
                  j + 1)

\* the loop bounds and strides of the output loops
Dim(in) == IF in.opt.isCategoryLabel THEN 1 ELSE in.sh.D
IEnd(in, s) == IF in.opt.transpose THEN Dim(in) ELSE SeqSteps(in, s)
JEnd(in, s) == IF in.opt.transpose THEN SeqSteps(in, s) ELSE Dim(in)
IStride(in) == IF in.opt.transpose THEN 1 ELSE ColStride(in)
JStride(in) == IF in.opt.transpose THEN ColStride(in) ELSE 1

\* pCurValue[i * istride + j * jstride]
PrintCell(in, s, i, j) == CurValue(in, s) + i * IStride(in) + j * JStride(in)

Tok(kind) == <<kind, 0>>

\* fprintfOrDie(f, valueFormatString.c_str(), ...) of one element
ValueToken(in, val, v) ==
    CASE FormatChar(in.opt) = "f" -> <<"f", val>>
      [] FormatChar(in.opt) = "u" -> <<"u", val>>
      [] OTHER -> <<"s", IF val + 1 \in DOMAIN LabelMapping(in)
                         THEN LabelMapping(in)[val + 1] ELSE v>>

\* the element separator is written after every element
RECURSIVE PrintRowSeparatorAfter(_, _, _, _, _, _)
PrintRowSeparatorAfter(in, s, mem, v, j, i) ==
    IF i = IEnd(in, s) THEN <<>>
    ELSE <<ValueToken(in, mem[PrintCell(in, s, i, j)], v), Tok("elementSeparator")>>
            \o PrintRowSeparatorAfter(in, s, mem, v, j, i + 1)

RECURSIVE PrintRow(_, _, _, _, _, _)
PrintRow(in, s, mem, v, j, i) ==
    IF i = IEnd(in, s) THEN <<>>
    ELSE (IF i > 0 THEN <<Tok("elementSeparator")>> ELSE <<>>)
            \o <<ValueToken(in, mem[PrintCell(in, s, i, j)], v)>>
            \o PrintRow(in, s, mem, v, j, i + 1)

RECURSIVE PrintRows(_, _, _, _, _)
PrintRows(in, s, mem, v, j) ==
    IF j = JEnd(in, s) THEN <<>>
    ELSE (IF j > 0 THEN <<Tok("sampleSeparator")>> ELSE <<>>)
            \o PrintRow(in, s, mem, v, j, 0)
            \o PrintRows(in, s, mem, v, j + 1)

\* the separator and the prologue of sequence s
SequenceHead(in, s) ==
    (IF EmitsSeparator(in.opt.numMBsRun, s, in.opt.sepEmpty)
     THEN <<Tok("sequenceSeparator")>> ELSE <<>>)
        \o <<Tok("sequencePrologue")>>

\* if (formatChar == 's') if (outputValues.GetNumRows() != labelMapping.size()) InvalidArgument(...)
DimensionMismatch(in) ==
    /\ in.opt.isCategoryLabel
    /\ FormatChar(in.opt) = "s"
    /\ in.sh.D # Len(LabelMapping(in))

\* the offsets the round of sequence s reads or writes
Touched(in, s) ==
    (IF in.opt.isCategoryLabel
     THEN {ScanStart(in, s, j) + i : j \in 0..(SeqSteps(in, s) - 1), i \in 0..(in.sh.D - 1)}
             \cup {IndexCell(in, s, j) : j \in 0..(SeqSteps(in, s) - 1)}
     ELSE {})
        \cup {PrintCell(in, s, i, j) : i \in 0..(IEnd(in, s) - 1), j \in 0..(JEnd(in, s) - 1)}

MInit ==
    /\ mpc = "call"
    /\ mIn \in MatrixCalls
    /\ outputValues = mIn.values
    /\ tempArray = <<>>
    /\ mDeletes = 0
    /\ mS = 0
    /\ mOut = <<>>
    /\ mTouched = {}
    /\ mRun = 1
    /\ mFirst = <<>>

MIdle ==
    /\ mpc = "off"
    /\ mIn = [sh |-> [D |-> 1, P |-> 1, T |-> 1], values |-> [k \in {0} |-> 0],
              hasLayout |-> FALSE, seqs |-> <<>>,
              opt |-> [isCategoryLabel |-> FALSE, hasMapping |-> FALSE, mapExtra |-> 0,
                       transpose |-> TRUE, numMBsRun |-> 0, sepEmpty |-> FALSE]]
    /\ outputValues = mIn.values
    /\ tempArray = <<>>
    /\ mDeletes = 0
    /\ mS = 0
    /\ mOut = <<>>
    /\ mTouched = {}
    /\ mRun = 1
    /\ mFirst = <<>>

\* tempArray = new ElemType[...]; outputValues.CopyToArray(tempArray, tempArraySize);
WriteMatrixBegin ==
    /\ mpc = "call"
    /\ tempArray' = outputValues
    /\ mDeletes' = 0
    /\ mS' = 0
    /\ mOut' = <<>>
    /\ mTouched' = {}
    /\ mpc' = "loop"
    /\ UNCHANGED <<rvars, wvars, mIn, outputValues, mRun, mFirst>>

\* one round of the loop over the sequences.  A round that uses an offset outside the
\* array, or the array after delete[], or deletes it again, either goes on with what
\* it reads or ends the process.
WriteMatrixSequence ==
    /\ mpc = "loop"
    /\ mS < Len(Sequences(mIn))
    /\ IF DimensionMismatch(mIn)
       THEN /\ mOut' = mOut \o SequenceHead(mIn, mS)
            /\ mpc' = "failed"
            /\ UNCHANGED <<tempArray, mDeletes, mS, mTouched>>
       ELSE \E keep \in BOOLEAN, v \in Values :
               LET freed   == mDeletes > 0
                   mem     == Memory(mIn, tempArray, freed, keep, v)
                   after   == IF mIn.opt.isCategoryLabel
                              THEN Collapse(mIn, mS, mem, 0) ELSE mem
                   shown   == [k \in Window(mIn) |->
                                  IF keep \/ (InBuffer(mIn, k) /\ ~freed)
                                  THEN after[k] ELSE v]
                   text    == SequenceHead(mIn, mS)
                                 \o PrintRows(mIn, mS, shown, v, 0)
                                 \o <<Tok("sequenceEpilogue")>>
                   undefined == freed \/ \E k \in Touched(mIn, mS) : ~InBuffer(mIn, k)
               IN  /\ mTouched' = mTouched \cup Touched(mIn, mS)
                   /\ \/ /\ mOut' = mOut \o text
                         /\ tempArray' =
                               [k \in DOMAIN tempArray |->
                                   IF ~freed \/ keep THEN after[k] ELSE tempArray[k]]
                         /\ mDeletes' = mDeletes + 1
                         /\ mS' = mS + 1
                         /\ mpc' = "loop"
                      \/ /\ undefined
                         /\ mpc' = "crashed"
                         /\ UNCHANGED <<tempArray, mDeletes, mS, mOut>>
    /\ UNCHANGED <<rvars, wvars, mIn, outputValues, mRun, mFirst>>

\* the loop is over: WriteMatrix returns
WriteMatrixReturn ==
    /\ mpc = "loop"
    /\ mS = Len(Sequences(mIn))
    /\ mpc' = "done"
    /\ UNCHANGED <<rvars, wvars, mIn, outputValues, tempArray, mDeletes, mS, mOut,
                   mTouched, mRun, mFirst>>

\* the caller calls WriteMatrix again with the same arguments
WriteMatrixAgain ==
    /\ mpc = "done"
    /\ mRun = 1
    /\ mFirst' = mOut
    /\ mRun' = 2
    /\ mpc' = "call"
    /\ UNCHANGED <<rvars, wvars, mIn, outputValues, tempArray, mDeletes, mS, mOut,
                   mTouched>>

MNext ==
    WriteMatrixBegin \/ WriteMatrixSequence \/ WriteMatrixReturn \/ WriteMatrixAgain

(***************************************************************************)
(* Specifications.                                                         *)
(***************************************************************************)
vars == <<rvars, wvars, mvars>>

\* the resolution of output and input nodes alone
ResolveInit == RInit /\ WIdle /\ MIdle

SpecResolve == ResolveInit /\ [][RNext]_vars

\* one call of a reader-driven WriteOutput
Init == WInit /\ RIdle /\ MIdle

Next == WNext

Spec == Init /\ [][Next]_vars

\* WriteMatrix alone
MatrixInit == MInit /\ RIdle /\ WIdle

SpecMatrix == MatrixInit /\ [][MNext]_vars


(***************************************************************************)
(* Properties.                                                             *)
(***************************************************************************)
\* q without the later occurrences of its elements
RECURSIVE FirstOccurrences(_)
FirstOccurrences(q) ==
    IF q = <<>> THEN <<>>
    ELSE LET front == FirstOccurrences(SubSeq(q, 1, Len(q) - 1))
         IN  IF q[Len(q)] \in Range(front) THEN front ELSE Append(front, q[Len(q)])

Requested(names) == [i \in 1..Len(names) |-> GetNodeFromName(names[i])]

\* C1: for a non-empty list of names that all exist, DetermineOutputNodes returns the
\* nodes in the requested order and no node twice, also when a name is given twice.
C1_RequestedOrderNoDuplicates ==
    (rpc # "start" /\ rNames # <<>> /\ 0 \notin Range(Requested(rNames)))
        => /\ rOut.err = "none"
           /\ rOut.nodes = FirstOccurrences(Requested(rNames))
           /\ NoDuplicates(rOut.nodes)

\* C2: with no names, DetermineOutputNodes returns exactly the default output nodes of
\* the network, and fails without a node set when the network has none.
C2_EmptyNamesUseDefaults ==
    (rpc # "start" /\ rNames = <<>>)
        => IF rDefaults = <<>>
           THEN rOut.err = "LogicError" /\ rOut.nodes = <<>>
           ELSE rOut.err = "none" /\ rOut.nodes = rDefaults

C2_Witness ==
    rpc = "resolved" /\ rNames = <<>> /\ rDefaults = <<>> /\ rOut.err = "LogicError"

\* C3: DetermineInputNodes of <<A, B>> has no node twice and holds the nodes of
\* DetermineInputNodes of <<A>> and of <<B>>, and no others.
C3_ClosureIsUnion ==
    rpc = "closed"
        => /\ NoDuplicates(rClo.ab)
           /\ Range(rClo.ab) = Range(rClo.a) \cup Range(rClo.b)

C3_Witness ==
    /\ rpc = "closed"
    /\ rPair[1] # rPair[2]
    /\ Range(rClo.a) \cap Range(rClo.b) # {}
    /\ Range(rClo.a) # Range(rClo.b)
    /\ Len(rClo.ab) = 2

\* the files of the call, of output nodes and of gradient nodes
AllStreams ==
    {outputStreams[n] : n \in DOMAIN outputStreams}
        \cup {outputStreamsForGradients[g] : g \in DOMAIN outputStreamsForGradients}

\* nothing before the first sequence of a file, one separator right before every other
SeparatedSequences(data) ==
    \A i \in 1..Len(data) :
        /\ data[i] = "seq" =>
              IF \E k \in 1..(i - 1) : data[k] = "seq"
              THEN i > 2 /\ data[i - 1] = "sep" /\ data[i - 2] # "sep"
              ELSE \A k \in 1..(i - 1) : data[k] # "sep"
        /\ data[i] = "sep" => i < Len(data) /\ data[i + 1] = "seq"

\* C4: on every file of a run, the sequence separator stands right before every
\* sequence but the first of the run, once.
C4_SeparatorBetweenSequences ==
    (IsFile /\ ~args.sepEmpty) => \A st \in AllStreams : SeparatedSequences(st.data)

\* where the column of sequence s at time step t begins in the matrix
ColumnOffset(in, s, t) == s * in.sh.D + t * ColStride(in)

\* the lowest row index that holds the maximum of the D values from offset at
LowestArgMax(values, at, D) ==
    CHOOSE i \in 0..(D - 1) :
        /\ \A k \in 0..(D - 1) : values[at + k] <= values[at + i]
        /\ \A k \in 0..(i - 1) : values[at + k] < values[at + i]

\* the row indices of the maxima of the columns of sequences s, s + 1, ..., each over
\* its clipped range
RECURSIVE ColumnMaxima(_, _)
ColumnMaxima(in, s) ==
    IF s >= Len(Sequences(in)) THEN <<>>
    ELSE [j \in 1..SeqSteps(in, s) |->
             LowestArgMax(in.values, ColumnOffset(in, s, ClippedBegin(in, s) + j - 1),
                          in.sh.D)]
            \o ColumnMaxima(in, s + 1)

\* the categories a call wrote, in order
RECURSIVE Categories(_)
Categories(out) ==
    IF out = <<>> THEN <<>>
    ELSE (IF out[1][1] = "u" THEN <<out[1][2]>> ELSE <<>>) \o Categories(Tail(out))

\* a call in category-label mode without label mapping
CategoryCall ==
    /\ mIn.opt.isCategoryLabel
    /\ FormatChar(mIn.opt) = "u"

\* C5: in category-label mode the value written for a column is the row index of the
\* maximum of that column, the lowest such index when several rows hold the maximum.
C5_CategoryIsLowestArgMax ==
    (mpc = "done" /\ CategoryCall) => Categories(mOut) = ColumnMaxima(mIn, 0)

\* C6: a second call of WriteMatrix with the same arguments writes what the first
\* wrote, and the matrix of the caller is as it was.
C6_SameOutputTwice ==
    (mpc = "done" /\ mRun = 2) => (mOut = mFirst /\ outputValues = mIn.values)

\* the nodes the unit test makes observable: the input nodes of all output nodes and
\* the learnable parameters of the first output node, in the network as it was
Boundary ==
    Range(inputNodes) \cup LearnableParameterNodes(BaseInputs, outputNodes[1])

Instrumented ==
    /\ IsFile
    /\ IsTest
    /\ pc \in {"open", "start", "pull", "eval", "grads", "endBatch", "epilogue", "flush",
               "return", "done"}

\* C7: after the instrumentation every boundary node b has one identity node whose
\* single input is b, every slot that held b holds that identity node, b's own inputs
\* are as before, and every slot that held no boundary node is as before.
C7_InstrumentationRewires ==
    Instrumented
        => /\ Len(gradientNodes) = Cardinality(Boundary)
           /\ NoDuplicates(gradientNodes)
           /\ DOMAIN netEdges = BaseNodes \cup Range(gradientNodes)
           /\ \A b \in Boundary :
                 /\ netEdges[b] = BaseInputs[b]
                 /\ \E g \in Range(gradientNodes) :
                       /\ g \notin BaseNodes
                       /\ netEdges[g] = <<b>>
                       /\ \A n \in BaseNodes : \A i \in 1..Len(BaseInputs[n]) :
                             BaseInputs[n][i] = b => netEdges[n][i] = g
           /\ \A n \in BaseNodes :
                 /\ Len(netEdges[n]) = Len(BaseInputs[n])
                 /\ \A i \in 1..Len(BaseInputs[n]) :
                       BaseInputs[n][i] \notin Boundary => netEdges[n][i] = BaseInputs[n][i]

\* a boundary node that one consumer reads in two slots, and consumers left alone
C7_Witness ==
    /\ Instrumented
    /\ pc = "open"
    /\ 1 \in Boundary
    /\ netEdges[8][1] \notin BaseNodes
    /\ netEdges[8][1] = netEdges[8][2]
    /\ netEdges[6][1] = 5

\* C8: in a call of the file overload that returns, every file of an output node gets
\* the prologue once, before anything else, and the epilogue once, after the last
\* minibatch and after the reader has signalled the end.
C8_PrologueAndEpilogueOnce ==
    (IsFile /\ pc = "done")
        => /\ reader.exhausted
           /\ \A n \in DOMAIN outputStreams :
                 LET data == outputStreams[n].data
                 IN  /\ Count(data, "prologue") = 1
                     /\ data[1] = "prologue"
                     /\ Count(data, "epilogue") = 1
                     /\ \A i \in 1..Len(data) :
                           data[i] \in {"seq", "sep"} =>
                              \E k \in (i + 1)..Len(data) : data[k] = "epilogue"

\* C9: when the file overload returns, every file that was opened, one per output node
\* and in the unit test one per gradient node, has been flushed once, after the last
\* write to it.
C9_FlushedOnceAtTheEnd ==
    (IsFile /\ pc = "done")
        => /\ DOMAIN outputStreams = Range(outputNodes)
           /\ DOMAIN outputStreamsForGradients =
                 (IF IsTest THEN Range(gradientNodes) ELSE {})
           /\ \A st \in AllStreams :
                 /\ Count(st.data, "flush") = 1
                 /\ st.data[Len(st.data)] = "flush"

\* a unit test that returns with gradients written to the file of a gradient node
C9_Witness ==
    /\ IsFile
    /\ IsTest
    /\ pc = "done"
    /\ numMBsRun = 2
    /\ \E g \in DOMAIN outputStreamsForGradients :
          Count(outputStreamsForGradients[g].data, "seq") >= 2

\* C10: when a reader-driven WriteOutput has ended, by return or by an exception, the
\* mode of the network is the one it had when the call began.
C10_ModeRestored ==
    pc \in {"done", "failed"} => netMode = entryMode

\* C10: no exception leaves the call without modeGuard being destructed, and nothing
\* but the call's own steps changes the mode in between.
C10_Witness ==
    /\ pc = "failed"
    /\ err = "fatal"
    /\ IsTest
    /\ gradientNodes # <<>>
    /\ entryMode = "unspecified"
    /\ netMode = "unspecified"

C10_WitnessWriter ==
    pc = "done" /\ ~IsFile /\ entryMode = "training" /\ saved = 2

\* the states of the batch driver: 0 Idle, 1 StreamOpen, 2 Evaluating or Emitting,
\* 3 Drained, 4 Closed, 5 left by an exception or the end of the process
Phase(p) ==
    CASE p \in {"idle", "resolve", "setup", "instrument", "open", "start", "wstart"} -> 0
      [] p = "pull" -> 1
      [] p \in {"eval", "grads", "weval", "wsave", "endBatch"} -> 2
      [] p \in {"epilogue", "flush", "return"} -> 3
      [] p = "done" -> 4
      [] OTHER -> 5

PhaseSteps == {<<0, 0>>, <<0, 1>>, <<1, 2>>, <<2, 2>>, <<2, 1>>, <<1, 3>>, <<3, 3>>, <<3, 4>>}

\* new is old with epilogues and flushes added
OnlyClosing(old, new) ==
    /\ DOMAIN new = DOMAIN old
    /\ \A n \in DOMAIN old :
          /\ Len(new[n].data) >= Len(old[n].data)
          /\ SubSeq(new[n].data, 1, Len(old[n].data)) = old[n].data
          /\ \A i \in (Len(old[n].data) + 1)..Len(new[n].data) :
                new[n].data[i] \in {"epilogue", "flush"}

DriverStep ==
    /\ Phase(pc') = 5 \/ <<Phase(pc), Phase(pc')>> \in PhaseSteps
    /\ (Phase(pc) = 1 /\ Phase(pc') = 3) => reader'.exhausted
    /\ Phase(pc') \in {3, 4} => reader'.exhausted
    /\ reader.exhausted =>
          /\ reader' = reader
          /\ log' = log
          /\ saved' = saved
          /\ numMBsRun' = numMBsRun
          /\ OnlyClosing(outputStreams, outputStreams')
          /\ OnlyClosing(outputStreamsForGradients, outputStreamsForGradients')

\* C11: the driver goes Idle, StreamOpen, Evaluating and Emitting by turns, Drained,
\* Closed; once the reader has signalled the end no minibatch is pulled, nothing is
\* evaluated and no minibatch content is written: only epilogues and flushes follow.
C11_DriverStateMachine == [][DriverStep]_vars

C11_Witness ==
    /\ pc = "done"
    /\ reader.exhausted
    /\ reader.pulls = 1
    /\ IsFile
    /\ \E n \in DOMAIN outputStreams : Count(outputStreams[n].data, "seq") >= 1

\* a call whose output nodes cannot be resolved
UnresolvableRequest ==
    \/ args.outputNodeNames = <<>> /\ netDefaults = <<>>
    \/ \E i \in 1..Len(args.outputNodeNames) : GetNodeFromName(args.outputNodeNames[i]) = 0

\* C12: a call whose output nodes cannot be resolved ends with the error of the
\* resolution, and at no time is the reader started, a minibatch pulled, a file opened
\* or anything written.
C12_ResolutionFailureAbortsEarly ==
    (pc # "off" /\ UnresolvableRequest)
        => /\ pc \in {"idle", "resolve", "failed"}
           /\ (pc = "failed" => err \in {"LogicError", "NotFound", "fatal"})
           /\ ~reader.started
           /\ reader.pulls = 0
           /\ outputStreams = <<>>
           /\ outputStreamsForGradients = <<>>
           /\ saved = 0
           /\ log = <<>>

\* the second of two names is unknown
C12_Witness ==
    /\ pc = "failed"
    /\ err = "NotFound"
    /\ IsFile
    /\ args.outputNodeNames = <<"o1", "zz">>

\* the nodes of the entries of that kind in a log, in order
RECURSIVE NodesOf(_, _)
NodesOf(kind, entries) ==
    IF entries = <<>> THEN <<>>
    ELSE (IF entries[1][1] = kind THEN <<entries[1][2]>> ELSE <<>>)
            \o NodesOf(kind, Tail(entries))

IsPrefix(q, r) == Len(q) <= Len(r) /\ SubSeq(r, 1, Len(q)) = q

\* C13: in every minibatch the time stamps of the input nodes are bumped once, before
\* anything else; the output nodes are evaluated in the order of outputNodes; the value
\* of an output node is written, or saved by the writer, only after its ForwardProp in
\* this minibatch.
C13_BumpForwardWrite ==
    (pc \in {"eval", "grads", "weval", "wsave", "endBatch"} \/ (pc = "pull" /\ log # <<>>))
        => /\ log[1] = <<"bump">>
           /\ \A i \in 2..Len(log) : log[i][1] # "bump"
           /\ IsPrefix(NodesOf("forward", log), outputNodes)
           /\ \A i \in 1..Len(log) :
                 /\ log[i][1] = "write" =>
                       /\ log[i - 1] = <<"forward", log[i][2]>>
                       /\ NodesOf("write", SubSeq(log, 1, i))
                             = NodesOf("forward", SubSeq(log, 1, i))
                 /\ log[i][1] \in {"save", "dataEnd"} =>
                       NodesOf("forward", SubSeq(log, 1, i)) = outputNodes

\* two output nodes, each written right after its evaluation
C13_Witness ==
    /\ pc = "endBatch"
    /\ IsFile
    /\ outputNodes = <<6, 7>>
    /\ log = <<<<"bump">>, <<"forward", 6>>, <<"write", 6>>, <<"forward", 7>>, <<"write", 7>>>>

\* C14: minibatches are processed one at a time: DataEnd is called once for every
\* minibatch pulled, after everything that is evaluated and written for it and before
\* the next minibatch is pulled.
C14_DataEndOncePerBatch ==
    /\ Phase(pc) = 2 =>
          /\ reader.dataEnds = reader.pulls - 1
          /\ \A i \in 1..Len(log) : log[i][1] # "dataEnd"
    /\ Phase(pc) \in {1, 3, 4} =>
          /\ reader.dataEnds = reader.pulls
          /\ log # <<>> =>
                /\ log[Len(log)] = <<"dataEnd">>
                /\ \A i \in 1..(Len(log) - 1) : log[i][1] # "dataEnd"

\* the second minibatch has been ended and the third is about to be asked for
C14_Witness ==
    /\ pc = "pull"
    /\ ~IsFile
    /\ reader.pulls = 2
    /\ reader.dataEnds = 2
    /\ saved = 2

\* C15: a writer that does not support multiple utterances has the reader set to one
\* parallel sequence when the loop is started, before the first minibatch is pulled;
\* otherwise the number of parallel sequences of the reader is left as it was.
C15_ParallelSequencesForced ==
    pc # "off"
        => /\ reader.pulls > 0 => reader.started
           /\ reader.numParallel =
                 (IF ~IsFile /\ reader.started /\ ~args.supportMulti
                  THEN 1 ELSE args.numParallel)

\* a reader of two parallel sequences, forced to one, has delivered a minibatch
C15_Witness ==
    /\ ~IsFile
    /\ ~args.supportMulti
    /\ args.numParallel = 2
    /\ reader.pulls = 1
    /\ reader.numParallel = 1

\* the nodes the identity nodes were put behind
InstrumentedNodes == {netEdges[g][1] : g \in Range(gradientNodes)}

\* C16: in the unit test, more than one output node gives a warning and only the first
\* output node is used: the boundary nodes are its input nodes and its learnable
\* parameters, and Backprop is run from it alone; without any output node the call
\* fails before a minibatch is pulled.
C16_UnitTestUsesFirstOutput ==
    (IsFile /\ IsTest)
        => /\ Instrumented =>
                 /\ warned = (Len(outputNodes) > 1)
                 /\ InstrumentedNodes =
                       InputNodes(BaseInputs, outputNodes[1])
                          \cup LearnableParameterNodes(BaseInputs, outputNodes[1])
                 /\ \A i \in 1..Len(log) :
                       log[i][1] = "backward" => log[i][2] = outputNodes[1]
           /\ (args.outputNodeNames = <<>> /\ netDefaults = <<>>)
                 => (pc \in {"idle", "resolve", "failed"} /\ reader.pulls = 0)

\* C17: in the unit test a gradient node without gradient gives a warning only: the
\* call goes on, nothing of the minibatch is written to the file of that node, and the
\* gradients of the other gradient nodes are written.
C17_MissingGradientIsSkipped ==
    (IsFile /\ IsTest /\ DOMAIN outputStreamsForGradients # {})
        => /\ pc = "crashed" => Keys(outputStreamsForGradients)[cursor] \notin noGradient
           /\ \A g \in noGradient :
                 /\ Count(outputStreamsForGradients[g].data, "seq") = 0
                 /\ Count(outputStreamsForGradients[g].data, "sep") = 0
           /\ pc = "endBatch" =>
                 /\ Range(NodesOf("warning", log)) = noGradient
                 /\ Range(NodesOf("gradient", log)) = Range(gradientNodes) \ noGradient

\* the offsets of the elements of the sequences of a call: rows i of the columns of
\* sequence s at the time steps t of its clipped range
SequenceOffsets(in) ==
    UNION {{s * in.sh.D + t * ColStride(in) + i :
                t \in ClippedBegin(in, s)..(ClippedEnd(in, s) - 1), i \in 0..(in.sh.D - 1)} :
           s \in 0..(Len(Sequences(in)) - 1)}

\* C18: every offset WriteMatrix reads or writes is that of an element of one of the
\* sequences, at a time step of its clipped range, and so lies inside the copy of the
\* matrix.
C18_OffsetsInsideSequences ==
    /\ mTouched \subseteq SequenceOffsets(mIn)
    /\ \A k \in mTouched : InBuffer(mIn, k)

\* what a token is: a value, or the fragment of the formatting options it names
Kind(tok) == IF tok[1] \in {"f", "u", "s"} THEN "value" ELSE tok[1]

\* the numbers of outer-loop and of inner-loop items of sequence s: time steps and
\* rows when transpose is set, rows and time steps when it is not; category-label mode
\* has one row
OuterItems(in, s) ==
    IF in.opt.transpose THEN SeqSteps(in, s)
    ELSE IF in.opt.isCategoryLabel THEN 1 ELSE in.sh.D

InnerItems(in, s) ==
    IF in.opt.transpose THEN (IF in.opt.isCategoryLabel THEN 1 ELSE in.sh.D)
    ELSE SeqSteps(in, s)

\* outer items of inner values each: elementSeparator between the values of an item,
\* sampleSeparator between the items
Grid(outer, inner) ==
    [p \in 1..(outer * (2 * inner - 1) + (outer - 1)) |->
        LET r == (p - 1) % (2 * inner)
        IN  IF r = 2 * inner - 1 THEN "sampleSeparator"
            ELSE IF r % 2 = 0 THEN "value" ELSE "elementSeparator"]

\* what the rounds of the sequences before s write, the sequence separators left out
RECURSIVE SequenceFrames(_, _)
SequenceFrames(in, s) ==
    IF s = 0 THEN <<>>
    ELSE SequenceFrames(in, s - 1)
            \o <<"sequencePrologue">>
            \o Grid(OuterItems(in, s - 1), InnerItems(in, s - 1))
            \o <<"sequenceEpilogue">>

RECURSIVE KindsWithoutSeparators(_)
KindsWithoutSeparators(out) ==
    IF out = <<>> THEN <<>>
    ELSE (IF out[1][1] = "sequenceSeparator" THEN <<>> ELSE <<Kind(out[1])>>)
            \o KindsWithoutSeparators(Tail(out))

\* the numbers a call wrote, in order
RECURSIVE Numbers(_)
Numbers(out) ==
    IF out = <<>> THEN <<>>
    ELSE (IF out[1][1] = "f" THEN <<out[1][2]>> ELSE <<>>) \o Numbers(Tail(out))

\* a numeric call with one sequence that begins with the minibatch
OneSequenceFromStart ==
    /\ ~mIn.opt.isCategoryLabel
    /\ Len(Sequences(mIn)) = 1
    /\ Sequences(mIn)[1].tBegin = 0

\* the elements of the one sequence in the order of the loops
ElementsInLoopOrder(in) ==
    [k \in 1..(OuterItems(in, 0) * InnerItems(in, 0)) |->
        LET o == (k - 1) \div InnerItems(in, 0)
            n == (k - 1) % InnerItems(in, 0)
            t == IF in.opt.transpose THEN o ELSE n
            i == IF in.opt.transpose THEN n ELSE o
        IN  in.values[t * ColStride(in) + i]]

\* C19: the values of a sequence are written with the time steps as outer and the rows
\* as inner loop when transpose is set, and the other way round when it is not, with
\* elementSeparator between the items of the inner loop and sampleSeparator between
\* those of the outer loop, never before the first or after the last, the sequence
\* prologue before them and the sequence epilogue after them.
C19_LoopOrderAndSeparators ==
    mpc \in {"loop", "done"}
        => /\ KindsWithoutSeparators(mOut) = SequenceFrames(mIn, mS)
           /\ (OneSequenceFromStart /\ mS = 1) => Numbers(mOut) = ElementsInLoopOrder(mIn)

\* two rows and two time steps, not transposed: the rows are the outer loop
C19_Witness ==
    /\ mpc = "done"
    /\ OneSequenceFromStart
    /\ ~mIn.opt.transpose
    /\ mIn.sh = [D |-> 2, P |-> 1, T |-> 2]
    /\ mIn.values = (0 :> 0 @@ 1 :> 1 @@ 2 :> 0 @@ 3 :> 0)
    /\ Numbers(mOut) = <<0, 0, 1, 0>>
    /\ Len(mOut) = 9

\* a call in category-label mode with a label mapping
MappedCall == mIn.opt.isCategoryLabel /\ mIn.opt.hasMapping

RowsMatchMapping == mIn.sh.D = Len(LabelMapping(mIn))

NoValueWritten == \A i \in 1..Len(mOut) : Kind(mOut[i]) # "value"

\* every label written is an entry of the mapping
LabelsOfMapping ==
    \A i \in 1..Len(mOut) :
        mOut[i][1] = "s" => \E k \in DOMAIN LabelMapping(mIn) : LabelMapping(mIn)[k] = mOut[i][2]

\* C20: with a label mapping, a call for a matrix whose number of rows is
\* not the size of the mapping fails with InvalidArgument and writes no value; with
\* equal sizes it does not fail so and every index written is below the size of the
\* mapping.
C20_MismatchAlwaysFails ==
    (MappedCall /\ mpc \in {"done", "failed"})
        => IF RowsMatchMapping
           THEN mpc = "done" /\ LabelsOfMapping
           ELSE mpc = "failed" /\ NoValueWritten

\* the formats of the values in what a call wrote
ValueFormats(out) == {out[i][1] : i \in {k \in 1..Len(out) : Kind(out[k]) = "value"}}

\* C21: the format of the values follows from the options alone: a number when
\* isCategoryLabel is not set, a label of the mapping when it is set and a mapping file
\* is named, the category index as an unsigned number when it is set and no file is
\* named; every call with the same options writes in the same format, and a label
\* mapping is loaded only for the label format.
C21_FormatFromOptions ==
    /\ \A out \in {mOut, mFirst} :
          /\ ~mIn.opt.isCategoryLabel => ValueFormats(out) \subseteq {"f"}
          /\ (mIn.opt.isCategoryLabel /\ mIn.opt.hasMapping)
                => ValueFormats(out) \subseteq {"s"}
          /\ (mIn.opt.isCategoryLabel /\ ~mIn.opt.hasMapping)
                => ValueFormats(out) \subseteq {"u"}
    /\ LabelMapping(mIn) # <<>> => (mIn.opt.isCategoryLabel /\ mIn.opt.hasMapping)

\* a mapping file is named but isCategoryLabel is not set: both calls wrote numbers
C21_Witness ==
    /\ mpc = "done"
    /\ mRun = 2
    /\ ~mIn.opt.isCategoryLabel
    /\ mIn.opt.hasMapping
    /\ ValueFormats(mOut) = {"f"}
    /\ ValueFormats(mFirst) = {"f"}

\* C22: in every call of WriteMatrix, whatever the number of sequences of the layout,
\* tempArray is released exactly once, and nothing reads or writes it after that.
C22_ReleasedOnceNeverUsedAfter ==
    /\ mDeletes <= 1
    /\ mpc \in {"done", "failed"} => mDeletes = 1
    /\ (mpc \in {"loop", "crashed"} /\ mDeletes = 1) => mS = Len(Sequences(mIn))

\* C23: in the unit test, within every minibatch, Backprop of an output node comes
\* after the ForwardProp of that node and after its value is written, and a gradient
\* is written only after Backprop was called for every output node.
C23_BackwardAfterWriteGradientsLast ==
    (IsFile /\ IsTest)
        => \A i \in 1..Len(log) :
              /\ log[i][1] = "backward" =>
                    /\ i >= 3
                    /\ log[i - 1] = <<"write", log[i][2]>>
                    /\ log[i - 2] = <<"forward", log[i][2]>>
              /\ log[i][1] \in {"gradient", "warning"} =>
                    NodesOf("backward", SubSeq(log, 1, i)) = outputNodes

\* two output nodes, and the gradient of the first gradient node is written
C23_Witness ==
    /\ IsFile /\ IsTest
    /\ Len(outputNodes) = 2
    /\ outputNodes[1] # outputNodes[2]
    /\ \E i \in 1..Len(log) : log[i][1] = "gradient"

====
